---------------------------- MODULE Spec2Model ----------------------------
(***************************************************************************)
(* Model of preprocessing_code.py: the stage classifier                    *)
(* (classify_raw_stage), the per-company sequential assigner               *)
(* (assign_canonical_stages_and_exit) and the pipeline of main()           *)
(* (deduplicate, sort, group/apply, deal numbering, long-to-wide pivot).   *)
(*                                                                         *)
(* A Python string is a sequence of one-character strings, so that         *)
(* strip(), lower() and the substring test `in` are computed, not assumed. *)
(***************************************************************************)
EXTENDS Integers, Sequences, FiniteSets, TLC

VARIABLES
    pc,           \* position of main(): "dedup","sort","apply","number","pivot","done"
    df,           \* the long frame main() works on (df_raw[cols_to_keep], then df)
    locals,       \* locals of each call of assign_canonical_stages_and_exit
    df_assigned,  \* concatenated result of groupby(...).apply(...)
    df_final,     \* the wide table [columns, rows]
    call          \* one call of classify_raw_stage: [raw_stage, ret]

vars == <<pc, df, locals, df_assigned, df_final, call>>

-----------------------------------------------------------------------------
(* Python values *)

\* None (classify_raw_stage's "no mapping"); never equal to a string.
None == <<"None">>
\* NaN in an object column (a missing STAGE cell, an unfilled wide cell).
NaN == <<"NaN">>
\* last_idx = None (no non-exit deal seen yet); ordinals are 0..5.
NoIdx == -1
\* NaT: an unparseable or missing DEAL DATE after to_datetime(errors="coerce").
NaT == -1
\* NaN in a numeric column (deal size, revenue, or an unfilled wide cell).
NaNf == -1

\* str.isspace characters that occur in the modelled labels.
Whitespace == {" ", "\t"}

UpperChars == <<"A","B","C","D","E","F","G","H","I","J","K","L","M",
                "N","O","P","Q","R","S","T","U","V","W","X","Y","Z">>
LowerChars == <<"a","b","c","d","e","f","g","h","i","j","k","l","m",
                "n","o","p","q","r","s","t","u","v","w","x","y","z">>

\* The lower-case letter of each upper-case letter.
LowerOf ==
    [u \in {UpperChars[i] : i \in 1..Len(UpperChars)} |->
        LowerChars[CHOOSE i \in 1..Len(UpperChars) : UpperChars[i] = u]]

\* str.lower() on one character.
LowerChar(c) == IF c \in DOMAIN LowerOf THEN LowerOf[c] ELSE c

\* str.lower()
lower(s) == [i \in 1..Len(s) |-> LowerChar(s[i])]

\* str.strip(): drop leading and trailing whitespace.
strip(s) ==
    IF \A i \in 1..Len(s) : s[i] \in Whitespace THEN << >>
    ELSE LET lo == CHOOSE i \in 1..Len(s) :
                      /\ s[i] \notin Whitespace
                      /\ \A j \in 1..(i - 1) : s[j] \in Whitespace
             hi == CHOOSE i \in 1..Len(s) :
                      /\ s[i] \notin Whitespace
                      /\ \A j \in (i + 1)..Len(s) : s[j] \in Whitespace
         IN SubSeq(s, lo, hi)

\* Python's `pat in s` on strings.
In(pat, s) ==
    \E i \in 1..(Len(s) - Len(pat) + 1) : SubSeq(s, i, i + Len(pat) - 1) = pat

\* pd.isna on a scalar cell.
isna(x) == x = NaN

-----------------------------------------------------------------------------
(* String literals of the source *)

s_Exit     == <<"E","x","i","t">>
s_Seed     == <<"S","e","e","d">>
s_Series_A == <<"S","e","r","i","e","s"," ","A">>
s_Series_B == <<"S","e","r","i","e","s"," ","B">>
s_Series_C == <<"S","e","r","i","e","s"," ","C">>
s_Series_D == <<"S","e","r","i","e","s"," ","D">>
s_Series_E == <<"S","e","r","i","e","s"," ","E">>

p_merger    == <<"m","e","r","g","e","r">>
p_pre_ipo   == <<"p","r","e","-","i","p","o">>
p_pre_ipo2  == <<"p","r","e"," ","i","p","o">>
p_pipe      == <<"p","i","p","e">>
p_series    == <<"s","e","r","i","e","s"," ">>
p_seed      == <<"s","e","e","d">>
p_secondary == <<"s","e","c","o","n","d","a","r","y"," ",
                 "s","t","o","c","k"," ","p","u","r","c","h","a","s","e">>
p_add_on    == <<"a","d","d","-","o","n">>
p_add_on2   == <<"a","d","d"," ","o","n">>
p_growth    == <<"g","r","o","w","t","h"," ","c","a","p","i","t","a","l">>
p_expansion == <<"e","x","p","a","n","s","i","o","n">>

\* "series a", "series b", ...
p_series_(letter) == p_series \o <<letter>>

-----------------------------------------------------------------------------
(* 1. Stage mapping helpers *)

\* The exit rules, lines 13-18.
ExitRules(s) ==
    \/ In(p_merger, s)
    \/ In(p_pre_ipo, s) \/ In(p_pre_ipo2, s)
    \/ In(p_pipe, s)

\* Mutant: the seed test of line 35 is made before the series tests.
NonExitRulesSeedFirst(s) ==
    IF In(p_seed, s) THEN s_Seed
    ELSE IF In(p_series_("a"), s) THEN s_Series_A
    ELSE IF In(p_series_("b"), s) THEN s_Series_B
    ELSE IF In(p_series_("c"), s) THEN s_Series_C
    ELSE IF In(p_series_("d"), s) THEN s_Series_D
    ELSE IF \/ In(p_series_("e"), s) \/ In(p_series_("f"), s)
            \/ In(p_series_("g"), s) \/ In(p_series_("h"), s)
            \/ In(p_series_("i"), s) THEN s_Series_E
    ELSE IF In(p_secondary, s) THEN s_Series_E
    ELSE IF In(p_add_on, s) \/ In(p_add_on2, s) THEN s_Series_E
    ELSE IF In(p_growth, s) \/ In(p_expansion, s) THEN s_Series_E
    ELSE None

\* The rules after the exit rules, lines 22-48, first match wins.
NonExitRules(s) ==
    IF In(p_series_("a"), s) THEN s_Series_A
    ELSE IF In(p_series_("b"), s) THEN s_Series_B
    ELSE IF In(p_series_("c"), s) THEN s_Series_C
    ELSE IF In(p_series_("d"), s) THEN s_Series_D
    ELSE IF \/ In(p_series_("e"), s) \/ In(p_series_("f"), s)
            \/ In(p_series_("g"), s) \/ In(p_series_("h"), s)
            \/ In(p_series_("i"), s) THEN s_Series_E
    ELSE IF In(p_seed, s) THEN s_Seed
    ELSE IF In(p_secondary, s) THEN s_Series_E
    ELSE IF In(p_add_on, s) \/ In(p_add_on2, s) THEN s_Series_E
    ELSE IF In(p_growth, s) \/ In(p_expansion, s) THEN s_Series_E
    ELSE None

\* Mutant: the series/seed/late-stage rules are tried before the exit rules.
CascadeSeriesFirst(s) ==
    IF NonExitRules(s) # None THEN NonExitRules(s)
    ELSE IF ExitRules(s) THEN s_Exit
    ELSE None

\* The cascade on the normalised string, lines 12-48.
Cascade(s) ==
    IF ExitRules(s) THEN s_Exit ELSE NonExitRules(s)

\* Mutant: the label is stripped but not lower-cased (line 10 without
\* .lower()).
classify_raw_stage_cased(raw_stage) ==
    IF isna(raw_stage) THEN None
    ELSE Cascade(strip(raw_stage))

classify_raw_stage(raw_stage) ==
    IF isna(raw_stage) THEN None
    ELSE Cascade(lower(strip(raw_stage)))

-----------------------------------------------------------------------------
(* assign_canonical_stages_and_exit *)

stages_order == <<s_Seed, s_Series_A, s_Series_B, s_Series_C, s_Series_D, s_Series_E>>

\* stage_to_idx[s]: the 0-based position of s in stages_order.
stage_to_idx(s) == (CHOOSE i \in 1..Len(stages_order) : stages_order[i] = s) - 1

max_idx == Len(stages_order) - 1

Min(a, b) == IF a <= b THEN a ELSE b

\* Mutant: a regressing label is accepted as it is (the test on line 87 dropped).
ChooseIdxRegress(last_idx, mapped) ==
    IF mapped # None THEN stage_to_idx(mapped)
    ELSE IF last_idx = NoIdx THEN 0 ELSE Min(last_idx + 1, max_idx)

\* Mutant: a regressing label repeats the previous stage (line 92 assigns
\* last_idx instead of candidate_idx).
ChooseIdxRegressStays(last_idx, mapped) ==
    IF last_idx = NoIdx
    THEN IF mapped # None THEN stage_to_idx(mapped) ELSE 0
    ELSE IF mapped # None
         THEN IF stage_to_idx(mapped) >= last_idx
              THEN Min(stage_to_idx(mapped), max_idx)
              ELSE last_idx
         ELSE Min(last_idx + 1, max_idx)

\* Mutant: a label without a mapping repeats the previous stage (line 95
\* assigns last_idx instead of candidate_idx).
ChooseIdxUnknownStays(last_idx, mapped) ==
    IF last_idx = NoIdx
    THEN IF mapped # None THEN stage_to_idx(mapped) ELSE 0
    ELSE IF mapped # None
         THEN IF stage_to_idx(mapped) >= last_idx
              THEN Min(stage_to_idx(mapped), max_idx)
              ELSE Min(last_idx + 1, max_idx)
         ELSE last_idx

\* Mutant: a label that maps to the previous stage itself steps forward
\* (line 87 compares with > instead of >=).
ChooseIdxStrict(last_idx, mapped) ==
    IF last_idx = NoIdx
    THEN IF mapped # None THEN stage_to_idx(mapped) ELSE 0
    ELSE IF mapped # None
         THEN IF stage_to_idx(mapped) > last_idx
              THEN Min(stage_to_idx(mapped), max_idx)
              ELSE Min(last_idx + 1, max_idx)
         ELSE Min(last_idx + 1, max_idx)

\* idx of a non-exit deal, lines 75-95.
ChooseIdx(last_idx, mapped) ==
    IF last_idx = NoIdx
    THEN IF mapped # None THEN stage_to_idx(mapped) ELSE 0
    ELSE LET candidate_idx == Min(last_idx + 1, max_idx)
         IN IF mapped # None
            THEN LET raw_idx == stage_to_idx(mapped)
                 IN IF raw_idx >= last_idx
                    THEN Min(raw_idx, max_idx)
                    ELSE candidate_idx
            ELSE candidate_idx

\* The locals of a call on entry, lines 57-59.  from_rows is a history
\* variable: the DEAL_ID of the row whose iteration appended each stage.
EnterCall ==
    [assigned_stages |-> << >>, last_idx |-> NoIdx, exited |-> FALSE,
     from_rows |-> << >>]

\* Mutant: a row without a date is passed over by the loop.
LoopBodySkipUndated(st, row) ==
    IF st.exited \/ row["DEAL DATE"] = NaT THEN st
    ELSE LET mapped == classify_raw_stage(row["STAGE"])
         IN IF mapped = s_Exit
            THEN [st EXCEPT !.assigned_stages = Append(@, s_Exit),
                            !.from_rows = Append(@, row["DEAL ID"]),
                            !.exited = TRUE]
            ELSE LET idx == ChooseIdx(st.last_idx, mapped)
                 IN [st EXCEPT !.assigned_stages = Append(@, stages_order[idx + 1]),
                               !.from_rows = Append(@, row["DEAL ID"]),
                               !.last_idx = idx]

\* Mutant: the row that classifies as Exit sets exited but appends no stage
\* (line 70 dropped).
LoopBodyDropExit(st, row) ==
    IF st.exited THEN st
    ELSE LET mapped == classify_raw_stage(row["STAGE"])
         IN IF mapped = s_Exit
            THEN [st EXCEPT !.exited = TRUE]
            ELSE LET idx == ChooseIdx(st.last_idx, mapped)
                 IN [st EXCEPT !.assigned_stages = Append(@, stages_order[idx + 1]),
                               !.from_rows = Append(@, row["DEAL ID"]),
                               !.last_idx = idx]

\* Mutant: the row that classifies as Exit also resets last_idx to None.
LoopBodyExitClearsIdx(st, row) ==
    IF st.exited THEN st
    ELSE LET mapped == classify_raw_stage(row["STAGE"])
         IN IF mapped = s_Exit
            THEN [st EXCEPT !.assigned_stages = Append(@, s_Exit),
                            !.from_rows = Append(@, row["DEAL ID"]),
                            !.exited = TRUE,
                            !.last_idx = NoIdx]
            ELSE LET idx == ChooseIdx(st.last_idx, mapped)
                 IN [st EXCEPT !.assigned_stages = Append(@, stages_order[idx + 1]),
                               !.from_rows = Append(@, row["DEAL ID"]),
                               !.last_idx = idx]

\* Mutant: an Exit is recorded but later rows are still processed
\* (the `if exited: continue` of lines 62-64 dropped).
LoopBodyNoStop(st, row) ==
    LET mapped == classify_raw_stage(row["STAGE"])
    IN IF mapped = s_Exit
       THEN [st EXCEPT !.assigned_stages = Append(@, s_Exit),
                       !.from_rows = Append(@, row["DEAL ID"]),
                       !.exited = TRUE]
       ELSE LET idx == ChooseIdx(st.last_idx, mapped)
            IN [st EXCEPT !.assigned_stages = Append(@, stages_order[idx + 1]),
                          !.from_rows = Append(@, row["DEAL ID"]),
                          !.last_idx = idx]

\* Mutant: a row whose label has no mapping is skipped without a stage.
LoopBodySkipUnknown(st, row) ==
    IF st.exited \/ classify_raw_stage(row["STAGE"]) = None THEN st
    ELSE LoopBodyNoStop(st, row)

\* One iteration of the for loop on `row`, lines 61-98.
LoopBody(st, row) ==
    IF st.exited THEN st
    ELSE LET mapped == classify_raw_stage(row["STAGE"])
         IN IF mapped = s_Exit
            THEN [st EXCEPT !.assigned_stages = Append(@, s_Exit),
                            !.from_rows = Append(@, row["DEAL ID"]),
                            !.exited = TRUE]
            ELSE LET idx == ChooseIdx(st.last_idx, mapped)
                 IN [st EXCEPT !.assigned_stages = Append(@, stages_order[idx + 1]),
                               !.from_rows = Append(@, row["DEAL ID"]),
                               !.last_idx = idx]

\* Mutant: the last n rows are kept instead of the first n.
ilocTail(group, n) == SubSeq(group, Len(group) - n + 1, Len(group))

\* group.iloc[:n]
iloc(group, n) == SubSeq(group, 1, Min(n, Len(group)))

\* Lines 100-104: the first n rows of the group, with the stages attached
\* position by position as column CANONICAL_STAGE.
Truncated(group, assigned_stages) ==
    LET n == Len(assigned_stages)
        truncated == iloc(group, n)
    IN [k \in 1..Len(truncated) |->
          ("CANONICAL_STAGE" :> assigned_stages[k]) @@ truncated[k]]

\* The loop of lines 61-98 run over rows i..Len(group) from state st.
RECURSIVE RunLoop(_, _, _)
RunLoop(st, group, i) ==
    IF i > Len(group) THEN st
    ELSE RunLoop(LoopBody(st, group[i]), group, i + 1)

\* The whole function on one group, called alone.
assign_canonical_stages_and_exit(group) ==
    Truncated(group, RunLoop(EnterCall, group, 1).assigned_stages)

-----------------------------------------------------------------------------
(* 2. Main preprocessing pipeline *)

\* A row of df: the columns of cols_to_keep, lines 114-122.
Row(id, date, stage, company, company_id, size, revenue) ==
    ("DEAL ID" :> id) @@ ("DEAL DATE" :> date) @@ ("STAGE" :> stage)
    @@ ("PORTFOLIO COMPANY" :> company) @@ ("PORTFOLIO COMPANY ID" :> company_id)
    @@ ("DEAL SIZE (USD MN)" :> size) @@ ("COMPANY REVENUE (CURR. MN)" :> revenue)

\* A raw DEAL DATE cell that does not parse.
BadDate == -2

\* 2.3 drop_duplicates(subset=["DEAL ID"]): the first row of each deal id.
drop_duplicates(frame) ==
    LET keep(i) == \A j \in 1..(i - 1) : frame[j]["DEAL ID"] # frame[i]["DEAL ID"]
        RECURSIVE From(_)
        From(i) == IF i > Len(frame) THEN << >>
                   ELSE (IF keep(i) THEN <<frame[i]>> ELSE << >>) \o From(i + 1)
    IN From(1)

\* 2.4 pd.to_datetime(errors="coerce") on one cell.
to_datetime(d) == IF d = BadDate THEN NaT ELSE d

\* Order of sort_values on one key with NaT last.
DateLess(x, y) == x # NaT /\ (y = NaT \/ x < y)

\* Order of sort_values(["PORTFOLIO COMPANY ID", "DEAL DATE", "DEAL ID"]).
RowLess(a, b) ==
    \/ a["PORTFOLIO COMPANY ID"] < b["PORTFOLIO COMPANY ID"]
    \/ /\ a["PORTFOLIO COMPANY ID"] = b["PORTFOLIO COMPANY ID"]
       /\ \/ DateLess(a["DEAL DATE"], b["DEAL DATE"])
          \/ /\ a["DEAL DATE"] = b["DEAL DATE"]
             /\ a["DEAL ID"] < b["DEAL ID"]

\* Stable insertion of row r into a sorted frame.
Insert(r, sorted) ==
    LET after == {i \in 1..Len(sorted) : RowLess(r, sorted[i])}
        at == IF after = {} THEN Len(sorted) + 1
              ELSE CHOOSE i \in after : \A j \in after : i <= j
    IN SubSeq(sorted, 1, at - 1) \o <<r>> \o SubSeq(sorted, at, Len(sorted))

RECURSIVE sort_values(_)
sort_values(frame) ==
    IF frame = << >> THEN << >>
    ELSE Insert(frame[Len(frame)], sort_values(SubSeq(frame, 1, Len(frame) - 1)))

\* The group keys of groupby("PORTFOLIO COMPANY ID").
Keys(frame) == {frame[i]["PORTFOLIO COMPANY ID"] : i \in 1..Len(frame)}

\* The rows of one group, in frame order.
Group(frame, c) == SelectSeq(frame, LAMBDA r : r["PORTFOLIO COMPANY ID"] = c)

\* A call that has not started.
Pending == [at |-> "pending", i |-> 0, st |-> EnterCall, ret |-> << >>]

\* Mutant: last_idx and exited live outside the function and are not reset,
\* so a call starts from what the call of a lower company id left behind.
CallLocalsCarried(c) ==
    LET before == {b \in DOMAIN locals : b < c /\ locals[b].at # "pending"}
    IN IF before = {} THEN EnterCall
       ELSE LET b == CHOOSE x \in before : \A y \in before : y <= x
            IN [EnterCall EXCEPT !.last_idx = locals[b].st.last_idx,
                                 !.exited = locals[b].st.exited]

\* The locals the call for company c starts with: its own, fresh (lines 57-59).
CallLocals(c) == EnterCall

\* Concatenation of the returned groups in ascending key order (line 133-136).
RECURSIVE ConcatFrom(_, _)
ConcatFrom(keys, loc) ==
    IF keys = {} THEN << >>
    ELSE LET c == CHOOSE x \in keys : \A y \in keys : x <= y
         IN loc[c].ret \o ConcatFrom(keys \ {c}, loc)

\* Mutant: cumcount over the whole frame, not per company.
cumcountGlobal(frame, i) == i - 1

\* groupby("PORTFOLIO COMPANY ID").cumcount() at row i.
cumcount(frame, i) ==
    Cardinality({j \in 1..(i - 1) :
        frame[j]["PORTFOLIO COMPANY ID"] = frame[i]["PORTFOLIO COMPANY ID"]})

\* 2.6 the frame with column deal_number = cumcount + 1 (lines 139-141).
with_deal_number(frame) ==
    [i \in 1..Len(frame) |-> frame[i] @@ ("deal_number" :> cumcount(frame, i) + 1)]

\* The company names of the modelled data, in str order.
CompanyNames == <<"Acme", "Bolt">>

\* Python's < on two of these names.
NameLess(a, b) ==
    (CHOOSE i \in 1..Len(CompanyNames) : CompanyNames[i] = a)
      < (CHOOSE i \in 1..Len(CompanyNames) : CompanyNames[i] = b)

\* 2.8 var_map, in dict order: (long column, wide prefix).
var_map == << <<"CANONICAL_STAGE", "stage">>,
              <<"DEAL DATE", "deal_date">>,
              <<"COMPANY REVENUE (CURR. MN)", "company_revenue">>,
              <<"DEAL SIZE (USD MN)", "deal_size_usd">> >>

\* The prefixes in the order of line 170.
prefixes == <<"stage", "deal_date", "company_revenue", "deal_size_usd">>

base_cols == <<"PORTFOLIO COMPANY", "PORTFOLIO COMPANY ID">>

Digits == <<"0","1","2","3","4","5","6","7","8","9">>

\* str(int(c)) in decimal.
RECURSIVE IntStr(_)
IntStr(n) == IF n < 10 THEN Digits[n + 1]
             ELSE IntStr(n \div 10) \o Digits[(n % 10) + 1]

\* f"{prefix}_{int(c)}"
col_name(prefix, k) == prefix \o "_" \o IntStr(k)

\* What unstack leaves in a cell no row fills: a missing value of the column.
Fill(col) == IF col = "CANONICAL_STAGE" THEN NaN
             ELSE IF col = "DEAL DATE" THEN NaT ELSE NaNf

\* A set of integers as an ascending sequence.
RECURSIVE Ascending(_)
Ascending(S) ==
    IF S = {} THEN << >>
    ELSE LET m == CHOOSE x \in S : \A y \in S : x <= y
         IN <<m>> \o Ascending(S \ {m})

\* The row index after set_index(...) and unstack("deal_number"): the distinct
\* (PORTFOLIO COMPANY, PORTFOLIO COMPANY ID) pairs, sorted.
RECURSIVE SortedPairs(_)
SortedPairs(S) ==
    IF S = {} THEN << >>
    ELSE LET m == CHOOSE x \in S : \A y \in S \ {x} :
                     \/ NameLess(x[1], y[1])
                     \/ x[1] = y[1] /\ x[2] < y[2]
         IN <<m>> \o SortedPairs(S \ {m})

IndexPairs(frame) ==
    {<<frame[i]["PORTFOLIO COMPANY"], frame[i]["PORTFOLIO COMPANY ID"]>> :
        i \in 1..Len(frame)}

DealNumbers(frame) == {frame[i]["deal_number"] : i \in 1..Len(frame)}

\* df_idx[col].unstack("deal_number") at row `pair`, column k.
unstack(frame, col, pair, k) ==
    LET hit == {i \in 1..Len(frame) :
                  /\ frame[i]["PORTFOLIO COMPANY"] = pair[1]
                  /\ frame[i]["PORTFOLIO COMPANY ID"] = pair[2]
                  /\ frame[i]["deal_number"] = k}
    IN IF hit = {} THEN Fill(col) ELSE frame[CHOOSE i \in hit : TRUE][col]

\* The columns of df_wide: the index columns of reset_index, then for each
\* entry of var_map its columns prefix_k, k ascending (lines 156-162).
wide_columns(frame) ==
    LET ks == Ascending(DealNumbers(frame))
        nk == Len(ks)
    IN base_cols \o
       [j \in 1..(Len(var_map) * nk) |->
          col_name(var_map[((j - 1) \div nk) + 1][2], ks[((j - 1) % nk) + 1])]

\* max_deals, line 166.
max_deals(frame) ==
    CHOOSE m \in DealNumbers(frame) : \A k \in DealNumbers(frame) : k <= m

\* 2.9 final_cols, lines 168-175.
final_cols(frame) ==
    LET all == [j \in 1..(max_deals(frame) * Len(prefixes)) |->
                  col_name(prefixes[((j - 1) % Len(prefixes)) + 1],
                           ((j - 1) \div Len(prefixes)) + 1)]
        present == {wide_columns(frame)[j] : j \in 1..Len(wide_columns(frame))}
    IN base_cols \o SelectSeq(all, LAMBDA c : c \in present)

\* The cell of df_wide at row `pair`, column cn.
wide_cell(frame, pair, cn) ==
    IF cn = base_cols[1] THEN pair[1]
    ELSE IF cn = base_cols[2] THEN pair[2]
    ELSE LET pk == CHOOSE x \in (1..Len(var_map)) \X DealNumbers(frame) :
                      col_name(var_map[x[1]][2], x[2]) = cn
         IN unstack(frame, var_map[pk[1]][1], pair, pk[2])

\* df_final = df_wide[final_cols]
pivot(frame) ==
    LET cols == final_cols(frame)
        idx == SortedPairs(IndexPairs(frame))
    IN [columns |-> cols,
        rows |-> [r \in 1..Len(idx) |->
                    [cn \in {cols[j] : j \in 1..Len(cols)} |->
                        wide_cell(frame, idx[r], cn)]]]

-----------------------------------------------------------------------------
(* Actions of main() *)

\* 2.3
Dedup ==
    /\ pc = "dedup"
    /\ df' = drop_duplicates(df)
    /\ pc' = "sort"
    /\ UNCHANGED <<locals, df_assigned, df_final, call>>

\* 2.4
Sort ==
    /\ pc = "sort"
    /\ df' = sort_values([i \in 1..Len(df) |->
                [df[i] EXCEPT !["DEAL DATE"] = to_datetime(@)]])
    /\ pc' = "apply"
    /\ UNCHANGED <<locals, df_assigned, df_final, call>>

\* 2.5 apply enters the function for one group.
Call(c) ==
    /\ pc = "apply"
    /\ c \in Keys(df)
    /\ locals[c].at = "pending"
    /\ locals' = [locals EXCEPT ![c] =
                    [at |-> "loop", i |-> 1, st |-> CallLocals(c), ret |-> << >>]]
    /\ UNCHANGED <<pc, df, df_assigned, df_final, call>>

\* One iteration of `for _, row in group.iterrows()`.
Iterate(c) ==
    /\ pc = "apply"
    /\ locals[c].at = "loop"
    /\ locals[c].i <= Len(Group(df, c))
    /\ locals' = [locals EXCEPT
                    ![c].st = LoopBody(@, Group(df, c)[locals[c].i]),
                    ![c].i = @ + 1]
    /\ UNCHANGED <<pc, df, df_assigned, df_final, call>>

\* The loop is over: lines 100-104.
Return(c) ==
    /\ pc = "apply"
    /\ locals[c].at = "loop"
    /\ locals[c].i > Len(Group(df, c))
    /\ locals' = [locals EXCEPT
                    ![c].at = "returned",
                    ![c].ret = Truncated(Group(df, c), locals[c].st.assigned_stages)]
    /\ UNCHANGED <<pc, df, df_assigned, df_final, call>>

\* apply has every group's result and concatenates them.
Concat ==
    /\ pc = "apply"
    /\ \A c \in Keys(df) : locals[c].at = "returned"
    /\ df_assigned' = ConcatFrom(Keys(df), locals)
    /\ pc' = "number"
    /\ UNCHANGED <<df, locals, df_final, call>>

\* 2.6
Number ==
    /\ pc = "number"
    /\ df_assigned' = with_deal_number(df_assigned)
    /\ pc' = "pivot"
    /\ UNCHANGED <<df, locals, df_final, call>>

\* 2.7-2.9
Pivot ==
    /\ pc = "pivot"
    /\ df_final' = pivot(df_assigned)
    /\ pc' = "done"
    /\ UNCHANGED <<df, locals, df_assigned, call>>

-----------------------------------------------------------------------------
(* Inputs *)

\* Bounds of the explored inputs.
MaxDeals == 3
MaxWideDeals == 4
MaxCompanies == 2
MaxLen == 3
MaxTail == 6
MaxFrags == 3

CompanyIds == 1..MaxCompanies

\* Raw STAGE cells.
l_Seed_Round == <<"S","e","e","d"," ","R","o","u","n","d">>
l_Series_A == <<"S","e","r","i","e","s"," ","A">>
l_series_b == <<" ","s","e","r","i","e","s"," ","b"," ">>
l_Series_H == <<"S","e","r","i","e","s"," ","H">>
l_Merger == <<"M","e","r","g","e","r"," ","A","g","r","e","e","m","e","n","t">>
l_Venture == <<"V","e","n","t","u","r","e">>

PipeLabels == {NaN, l_series_b, l_Merger}
WideLabels == {NaN, l_Merger}
AssignLabels == {NaN, l_Seed_Round, l_Series_A, l_series_b, l_Series_H, l_Merger}
TailLabels == {NaN, l_Venture}

\* Pieces of raw labels; a label is up to MaxFrags of them joined.
Fragments ==
    { <<"S","e","r","i","e","s"," ">>, <<"A">>, <<"C">>, <<"H">>,
      <<"S","e","e","d">>, <<"M","e","r","g","e","r">>,
      <<" ","P","r","e","-","I","P","O">>, <<"p","r","e"," ","i","p","o">>,
      <<"P","I","P","E">>, <<"p","i","p">>, <<"e">>, <<" ">>,
      <<"P","r","e">>, <<"-","I","P","O">>,
      <<"G","r","o","w","t","h"," ","c","a","p","i","t","a","l">>,
      <<"A","d","d","-","o","n">> }

RECURSIVE LabelsUpTo(_)
LabelsUpTo(n) ==
    IF n = 0 THEN { << >> }
    ELSE LET shorter == LabelsUpTo(n - 1)
         IN shorter \cup {a \o f : a \in shorter, f \in Fragments}

\* The deal fields that do not depend on company or label, by deal id.
DateOf(d) == <<1, 2, 1, BadDate>>[(d % 4) + 1]
SizeOf(d) == IF d % 2 = 0 THEN NaNf ELSE 10 * d
RevenueOf(d) == IF d % 3 = 0 THEN NaNf ELSE 100 * d
NameOf(c) == CompanyNames[((c - 1) % Len(CompanyNames)) + 1]

\* The order of the deals in the file: ascending, descending, or ascending
\* with deal 1 repeated (the raw file repeats a deal once per investor).
FileOrders(n) ==
    { [i \in 1..n |-> i], [i \in 1..n |-> n + 1 - i],
      [i \in 1..(n + 1) |-> IF i <= n THEN i ELSE 1] }

NoCall == [raw_stage |-> NaN, returned |-> TRUE, ret |-> None]

Start(frame) ==
    /\ pc = "dedup"
    /\ df = frame
    /\ locals = [c \in CompanyIds |-> Pending]
    /\ df_assigned = << >>
    /\ df_final = [columns |-> << >>, rows |-> << >>]
    /\ call = NoCall

\* Several companies, a few deals each.
Init ==
    \E n \in 1..MaxDeals :
      \E cid \in [1..n -> CompanyIds], lab \in [1..n -> PipeLabels],
         order \in FileOrders(n) :
        Start([i \in 1..Len(order) |->
                 LET d == order[i]
                 IN Row(d, DateOf(d), lab[d], NameOf(cid[d]), cid[d],
                        SizeOf(d), RevenueOf(d))])

\* As Init, with the company name free in every record.
InitWide ==
    \E n \in 1..MaxWideDeals :
      \E cid \in [1..n -> CompanyIds], lab \in [1..n -> WideLabels],
         name \in [1..n -> {CompanyNames[i] : i \in 1..Len(CompanyNames)}],
         order \in FileOrders(n) :
        Start([i \in 1..Len(order) |->
                 LET d == order[i]
                 IN Row(d, DateOf(d), lab[d], name[d], cid[d],
                        SizeOf(d), RevenueOf(d))])

\* One company with a longer history: any labels, then a run of labels that
\* carry no stage.
InitAssign ==
    \E n \in 0..MaxLen, m \in 0..MaxTail :
      /\ n + m >= 1
      /\ \E lab \in [1..n -> AssignLabels], tail \in TailLabels :
           Start([d \in 1..(n + m) |->
                    Row(d, d, IF d <= n THEN lab[d] ELSE tail, NameOf(1), 1,
                        SizeOf(d), RevenueOf(d))])

\* One call of classify_raw_stage on any label.
InitClassify ==
    /\ pc = "done"
    /\ df = << >>
    /\ locals = [c \in CompanyIds |-> Pending]
    /\ df_assigned = << >>
    /\ df_final = [columns |-> << >>, rows |-> << >>]
    /\ \E raw \in LabelsUpTo(MaxFrags) \cup {NaN} :
         call = [raw_stage |-> raw, returned |-> FALSE, ret |-> None]

Classify ==
    /\ ~call.returned
    /\ call' = [call EXCEPT !.returned = TRUE,
                            !.ret = classify_raw_stage(call.raw_stage)]
    /\ UNCHANGED <<pc, df, locals, df_assigned, df_final>>

Next ==
    \/ Dedup
    \/ Sort
    \/ \E c \in CompanyIds : Call(c)
    \/ \E c \in CompanyIds : Iterate(c)
    \/ \E c \in CompanyIds : Return(c)
    \/ Concat
    \/ Number
    \/ Pivot

Spec == Init /\ [][Next]_vars
SpecWide == InitWide /\ [][Next]_vars
SpecAssign == InitAssign /\ [][Next]_vars
SpecClassify == InitClassify /\ [][Classify]_vars

\* A direct call of assign_canonical_stages_and_exit on one group, whose
\* records need not have distinct deal ids.
InitCall ==
    \E n \in 1..MaxDeals :
      \E id \in [1..n -> 1..n], lab \in [1..n -> PipeLabels] :
        /\ pc = "apply"
        /\ df = [i \in 1..n |->
                   Row(id[i], DateOf(i), lab[i], NameOf(1), 1, SizeOf(i), RevenueOf(i))]
        /\ locals = [c \in CompanyIds |-> Pending]
        /\ df_assigned = << >>
        /\ df_final = [columns |-> << >>, rows |-> << >>]
        /\ call = NoCall

NextCall ==
    \/ \E c \in CompanyIds : Call(c)
    \/ \E c \in CompanyIds : Iterate(c)
    \/ \E c \in CompanyIds : Return(c)

SpecCall == InitCall /\ [][NextCall]_vars

\* Whole phrases of raw labels; a label is up to MaxPhrases of them, each
\* after a blank.
MaxPhrases == 2

Phrases ==
    { <<"M","e","r","g","e","r">>,
      <<"P","r","e","-","I","P","O">>,
      <<"p","r","e"," ","i","p","o">>,
      <<"P","I","P","E">>,
      <<"S","e","r","i","e","s"," ","A">>,
      <<"S","e","r","i","e","s"," ","B">>,
      <<"S","e","r","i","e","s"," ","C">>,
      <<"S","e","r","i","e","s"," ","D">>,
      <<"S","e","r","i","e","s"," ","E">>,
      <<"S","e","r","i","e","s"," ","F">>,
      <<"S","e","r","i","e","s"," ","G">>,
      <<"S","e","r","i","e","s"," ","H">>,
      <<"S","e","r","i","e","s"," ","I">>,
      <<"S","e","e","d">>,
      <<"S","e","c","o","n","d","a","r","y"," ","S","t","o","c","k"," ","P","u","r","c","h","a","s","e">>,
      <<"A","d","d","-","o","n">>,
      <<"A","d","d"," ","O","n">>,
      <<"G","r","o","w","t","h"," ","C","a","p","i","t","a","l">>,
      <<"E","x","p","a","n","s","i","o","n">>,
      <<"V","e","n","t","u","r","e">> }

RECURSIVE PhraseLabels(_)
PhraseLabels(n) ==
    IF n = 0 THEN { << >> }
    ELSE LET shorter == PhraseLabels(n - 1)
         IN shorter \cup {a \o <<" ">> \o f : a \in shorter, f \in Phrases}

\* One call of classify_raw_stage on a label made of phrases.
InitCascade ==
    /\ pc = "done"
    /\ df = << >>
    /\ locals = [c \in CompanyIds |-> Pending]
    /\ df_assigned = << >>
    /\ df_final = [columns |-> << >>, rows |-> << >>]
    /\ \E raw \in PhraseLabels(MaxPhrases) \cup {NaN} :
         call = [raw_stage |-> raw, returned |-> FALSE, ret |-> None]

SpecCascade == InitCascade /\ [][Classify]_vars

-----------------------------------------------------------------------------
(* Vocabulary of the properties *)

\* Ordinal of a non-Exit canonical stage: Seed = 0 ... Series E = 5.
OrdinalOf(s) ==
    CASE s = s_Seed -> 0
      [] s = s_Series_A -> 1
      [] s = s_Series_B -> 2
      [] s = s_Series_C -> 3
      [] s = s_Series_D -> 4
      [] s = s_Series_E -> 5

StageAt(ord) == <<s_Seed, s_Series_A, s_Series_B, s_Series_C, s_Series_D, s_Series_E>>[ord + 1]

StageColumn(frame) == [k \in 1..Len(frame) |-> frame[k]["CANONICAL_STAGE"]]
LabelColumn(frame) == [k \in 1..Len(frame) |-> frame[k]["STAGE"]]

\* The call for company c has returned; its input list; its emitted sequence.
Returned(c) == locals[c].at = "returned"
Input(c) == Group(df, c)
Emitted(c) == StageColumn(locals[c].ret)

\* text contains pat, ignoring case (pat is lower case).
ContainsCI(text, pat) ==
    \E i \in 1..(Len(text) - Len(pat) + 1) :
        \A j \in 1..Len(pat) : LowerChar(text[i + j - 1]) = pat[j]

-----------------------------------------------------------------------------
(* Properties *)

\* C1: in the sequence a company's call emits, the ordinals of the non-Exit
\* stages never decrease from one emitted deal to the next.
C1_NonExitOrdinalsNeverDecrease ==
    \A c \in CompanyIds :
        Returned(c) =>
            LET e == SelectSeq(Emitted(c), LAMBDA s : s # s_Exit)
            IN \A k \in 1..(Len(e) - 1) : OrdinalOf(e[k]) <= OrdinalOf(e[k + 1])

\* A returned call whose input held a label that maps below the stage
\* emitted just before it.
C1_Witness ==
    \E c \in CompanyIds :
        /\ Returned(c)
        /\ \E k \in 2..Len(Emitted(c)) :
              LET m == classify_raw_stage(Input(c)[k]["STAGE"])
              IN /\ m # None /\ m # s_Exit
                 /\ OrdinalOf(m) < OrdinalOf(Emitted(c)[k - 1])

\* C2: an emitted Exit is the last emitted deal, however many input records
\* follow the record it came from; ["Series B", "Merger Agreement", x, ...]
\* gives exactly [Series B, Exit].
C2_ExitIsLast ==
    \A c \in CompanyIds :
        Returned(c) =>
            /\ \A p \in 1..Len(Emitted(c)) :
                  Emitted(c)[p] = s_Exit => p = Len(Emitted(c))
            /\ ( /\ Len(Input(c)) >= 3
                 /\ Input(c)[1]["STAGE"] = l_series_b
                 /\ Input(c)[2]["STAGE"] = l_Merger )
               => Emitted(c) = <<s_Series_B, s_Exit>>

\* "series b", "Merger Agreement" and at least two more records went in, and
\* two deals came out.
C2_Witness ==
    \E c \in CompanyIds :
        /\ Returned(c)
        /\ Len(Input(c)) >= 4
        /\ Input(c)[1]["STAGE"] = l_series_b
        /\ Input(c)[2]["STAGE"] = l_Merger
        /\ Len(Emitted(c)) = 2
        /\ Emitted(c)[2] = s_Exit

\* C3: after numbering, the deal_number values of each company are 1, 2, ...,
\* len(emitted sequence) in emission order.
C3_DealNumbersContiguous ==
    pc \in {"pivot", "done"} =>
        \A c \in Keys(df) :
            LET g == Group(df_assigned, c)
            IN /\ Len(g) = Len(locals[c].ret)
               /\ \A k \in 1..Len(g) :
                     /\ g[k]["deal_number"] = k
                     /\ g[k]["DEAL ID"] = locals[c].ret[k]["DEAL ID"]

\* A company that lost a record after its Exit is numbered 1, 2.
C3_Witness ==
    /\ pc = "pivot"
    /\ \E c \in Keys(df) :
          /\ Len(Input(c)) = 3
          /\ Len(Group(df_assigned, c)) = 2
          /\ Group(df_assigned, c)[2]["deal_number"] = 2

\* The columns a record brings with it.
RecordColumns ==
    {"DEAL ID", "DEAL DATE", "STAGE", "PORTFOLIO COMPANY", "PORTFOLIO COMPANY ID",
     "DEAL SIZE (USD MN)", "COMPANY REVENUE (CURR. MN)"}

\* C4: the k-th emitted deal is the input record whose iteration appended
\* the k-th stage (same id, date, size, revenue), and the emitted deals keep
\* the input order.
C4_StagePairedWithItsRecord ==
    \A c \in CompanyIds :
        Returned(c) =>
            LET out == locals[c].ret
                st == locals[c].st
                pos(id) == CHOOSE j \in 1..Len(Input(c)) : Input(c)[j]["DEAL ID"] = id
            IN /\ Len(out) = Len(st.assigned_stages)
               /\ \A k \in 1..Len(out) :
                     /\ out[k]["CANONICAL_STAGE"] = st.assigned_stages[k]
                     /\ out[k]["DEAL ID"] = st.from_rows[k]
                     /\ \A col \in RecordColumns :
                           out[k][col] = Input(c)[pos(st.from_rows[k])][col]
               /\ \A k \in 1..(Len(out) - 1) :
                     pos(st.from_rows[k]) < pos(st.from_rows[k + 1])

\* A company whose third record gave the Exit and which had more.
C4_Witness ==
    \E c \in CompanyIds :
        /\ Returned(c)
        /\ Len(Input(c)) > 4
        /\ Len(locals[c].ret) = 3
        /\ locals[c].ret[3]["CANONICAL_STAGE"] = s_Exit
        /\ locals[c].ret[3]["DEAL ID"] = Input(c)[3]["DEAL ID"]

ExitPatterns == {p_merger, p_pre_ipo, p_pre_ipo2, p_pipe}

\* C5: a label that contains "merger", "pre-ipo", "pre ipo" or "pipe" in any
\* case classifies as Exit, whatever else it contains.
C5_ExitPatternsGiveExit ==
    ( /\ call.returned
      /\ ~isna(call.raw_stage)
      /\ \E p \in ExitPatterns : ContainsCI(call.raw_stage, p) )
    => call.ret = s_Exit

\* A label with both "series c" and "pre-ipo" in it was classified.
C5_Witness ==
    /\ call.returned
    /\ ~isna(call.raw_stage)
    /\ ContainsCI(call.raw_stage, p_series_("c"))
    /\ ContainsCI(call.raw_stage, p_pre_ipo)
    /\ call.ret = s_Exit

\* C6: the assigner run again on the records a call retained gives the same
\* canonical stage sequence.
C6_RerunReproduces ==
    \A c \in CompanyIds :
        Returned(c) =>
            StageColumn(assign_canonical_stages_and_exit(locals[c].ret)) = Emitted(c)

\* A call that retained three records, the last an Exit, and dropped others.
C6_Witness ==
    \E c \in CompanyIds :
        /\ Returned(c)
        /\ Len(locals[c].ret) = 3
        /\ Len(Input(c)) > 3
        /\ Emitted(c)[3] = s_Exit

\* C7: a label that maps to a non-Exit stage below the previous emitted
\* stage L is ignored and the stage with ordinal min(L + 1, 5) is emitted;
\* [Seed-labeled, "Series B", "Series A"] gives [Seed, Series B, Series C].
C7_RegressingLabelStepsForward ==
    \A c \in CompanyIds :
        locals[c].at # "pending" =>
            LET a == locals[c].st.assigned_stages
            IN /\ \A k \in 2..Len(a) :
                     LET m == classify_raw_stage(Input(c)[k]["STAGE"])
                     IN ( /\ m # None /\ m # s_Exit
                          /\ a[k - 1] # s_Exit
                          /\ OrdinalOf(m) < OrdinalOf(a[k - 1]) )
                        => a[k] = StageAt(Min(OrdinalOf(a[k - 1]) + 1, 5))
               /\ ( /\ Len(a) >= 3
                    /\ SubSeq(LabelColumn(Input(c)), 1, 3)
                         = <<l_Seed_Round, l_series_b, l_Series_A>> )
                  => SubSeq(a, 1, 3) = <<s_Seed, s_Series_B, s_Series_C>>

\* [Seed Round, series b, Series A] and at least one more record were
\* processed; the third stage is Series C.
C7_Witness ==
    /\ Returned(1)
    /\ Len(Input(1)) >= 4
    /\ SubSeq(LabelColumn(Input(1)), 1, 3) = <<l_Seed_Round, l_series_b, l_Series_A>>
    /\ Emitted(1)[3] = s_Series_C

\* C8: a missing or unrecognized label gives Seed when it is the first deal
\* and otherwise the stage with ordinal min(L + 1, 5), L the previous emitted
\* stage; n null labels give Seed, Series A, ... and stay at Series E.
C8_UnknownLabelFallsBack ==
    \A c \in CompanyIds :
        locals[c].at # "pending" =>
            LET a == locals[c].st.assigned_stages
            IN /\ \A k \in 1..Len(a) :
                     classify_raw_stage(Input(c)[k]["STAGE"]) = None =>
                        a[k] = IF k = 1 THEN s_Seed
                               ELSE StageAt(Min(OrdinalOf(a[k - 1]) + 1, 5))
               /\ ( /\ Returned(c)
                    /\ \A k \in 1..Len(Input(c)) : Input(c)[k]["STAGE"] = NaN )
                  => /\ Len(a) = Len(Input(c))
                     /\ \A k \in 1..Len(a) : a[k] = StageAt(Min(k - 1, 5))

\* Eight null labels were processed; the sixth to eighth stages are Series E.
C8_Witness ==
    /\ Returned(1)
    /\ Len(Input(1)) = 8
    /\ \A k \in 1..8 : Input(1)[k]["STAGE"] = NaN
    /\ SubSeq(Emitted(1), 5, 8) = <<s_Series_D, s_Series_E, s_Series_E, s_Series_E>>

\* The header the wide table is to have for N deal groups.
ExpectedHeader(N) ==
    <<"PORTFOLIO COMPANY", "PORTFOLIO COMPANY ID">> \o
    [j \in 1..(4 * N) |->
        <<"stage", "deal_date", "company_revenue", "deal_size_usd">>[((j - 1) % 4) + 1]
          \o "_" \o IntStr(((j - 1) \div 4) + 1)]

\* The longest emitted sequence over the companies of the frame.
LongestEmitted ==
    LET lens == {Len(locals[c].ret) : c \in Keys(df)}
    IN CHOOSE n \in lens : \A x \in lens : x <= n

\* Row r of the wide table holds deal d in column group k.
HoldsDeal(r, k, d) ==
    /\ r["stage_" \o IntStr(k)] = d["CANONICAL_STAGE"]
    /\ r["deal_date_" \o IntStr(k)] = d["DEAL DATE"]
    /\ r["company_revenue_" \o IntStr(k)] = d["COMPANY REVENUE (CURR. MN)"]
    /\ r["deal_size_usd_" \o IntStr(k)] = d["DEAL SIZE (USD MN)"]

\* Row r of the wide table is null in column group k.
NullGroup(r, k) ==
    /\ r["stage_" \o IntStr(k)] = NaN
    /\ r["deal_date_" \o IntStr(k)] = NaT
    /\ r["company_revenue_" \o IntStr(k)] = NaNf
    /\ r["deal_size_usd_" \o IntStr(k)] = NaNf

\* C9: the wide table has the header [company name, company id, stage_1,
\* deal_date_1, company_revenue_1, deal_size_usd_1, ..., ..._N], N the longest
\* emitted sequence, and one row per company; the row of a company with m
\* emitted deals holds deal k in group k for k <= m and nulls for m < k <= N.
C9_WideLayout ==
    pc = "done" =>
        /\ df_final.columns = ExpectedHeader(LongestEmitted)
        /\ Len(df_final.rows) = Cardinality(Keys(df))
        /\ \A c \in Keys(df) :
              \E r \in 1..Len(df_final.rows) :
                  /\ df_final.rows[r]["PORTFOLIO COMPANY ID"] = c
                  /\ \A k \in 1..LongestEmitted :
                        IF k <= Len(locals[c].ret)
                        THEN HoldsDeal(df_final.rows[r], k, locals[c].ret[k])
                        ELSE NullGroup(df_final.rows[r], k)

\* The same layout, for the frames in which every record of a company id
\* carries the same company name.
C9_WideLayoutOneNamePerCompany ==
    ( \A i, j \in 1..Len(df) :
         df[i]["PORTFOLIO COMPANY ID"] = df[j]["PORTFOLIO COMPANY ID"]
           => df[i]["PORTFOLIO COMPANY"] = df[j]["PORTFOLIO COMPANY"] )
    => C9_WideLayout

\* Companies with 3 and 1 emitted deals were reshaped.
C9_Witness ==
    /\ pc = "done"
    /\ Keys(df) = {1, 2}
    /\ Len(locals[1].ret) = 3
    /\ Len(locals[2].ret) = 1
    /\ Len(df_final.rows) = 2

\* C10: whatever the interleaving of the companies' calls and iterations,
\* the locals of each call are those of the loop run alone on the rows it has
\* seen, and what it returns is what the function returns on that company's
\* list alone.
C10_CompanyAlone ==
    \A c \in CompanyIds :
        /\ locals[c].at = "loop" =>
              locals[c].st = RunLoop(EnterCall, SubSeq(Input(c), 1, locals[c].i - 1), 1)
        /\ Returned(c) =>
              locals[c].ret = assign_canonical_stages_and_exit(Input(c))

\* Two calls are inside their loops at once: company 1 has met its Exit and
\* has a row left, company 2 has emitted a stage and has not returned.
C10_Witness ==
    /\ locals[1].at = "loop" /\ locals[2].at = "loop"
    /\ locals[1].i > 1 /\ locals[1].i <= Len(Input(1))
    /\ locals[2].i > 1
    /\ locals[1].st.exited
    /\ ~locals[2].st.exited
    /\ Len(locals[2].st.assigned_stages) >= 1

\* Two records of the list carry the same deal id.
HasDuplicateIds(group) ==
    \E i, j \in 1..Len(group) : i # j /\ group[i]["DEAL ID"] = group[j]["DEAL ID"]

\* C11: a company whose input list holds two records with the same deal id
\* gets an error, not a sequence: its call never returns one.
C11_DuplicateIdsGiveNoSequence ==
    \A c \in CompanyIds : HasDuplicateIds(Input(c)) => ~Returned(c)

\* A call returned a sequence for a list in which a deal id occurs twice.
C11_Witness ==
    \E c \in CompanyIds :
        /\ HasDuplicateIds(Input(c))
        /\ Returned(c)
        /\ Len(locals[c].ret) >= 2

\* The rules of the classifier as an ordered list: (patterns, result).
RuleList ==
    << <<{p_merger}, s_Exit>>,
       <<{p_pre_ipo, p_pre_ipo2}, s_Exit>>,
       <<{p_pipe}, s_Exit>>,
       <<{p_series_("a")}, s_Series_A>>,
       <<{p_series_("b")}, s_Series_B>>,
       <<{p_series_("c")}, s_Series_C>>,
       <<{p_series_("d")}, s_Series_D>>,
       <<{p_series_("e"), p_series_("f"), p_series_("g"),
          p_series_("h"), p_series_("i")}, s_Series_E>>,
       <<{p_seed}, s_Seed>>,
       <<{p_secondary}, s_Series_E>>,
       <<{p_add_on, p_add_on2}, s_Series_E>>,
       <<{p_growth, p_expansion}, s_Series_E>> >>

\* The rules a label matches, and the result of the first of them.
MatchingRules(text) ==
    {r \in 1..Len(RuleList) : \E p \in RuleList[r][1] : ContainsCI(text, p)}

FirstMatch(text) ==
    IF MatchingRules(text) = {} THEN None
    ELSE RuleList[CHOOSE r \in MatchingRules(text) :
                     \A q \in MatchingRules(text) : r <= q][2]

\* C12: the classifier returns the result of the first rule of the ordered
\* list that the label matches, and None for a null, empty or non-matching
\* label.
C12_FirstMatchWins ==
    call.returned =>
        call.ret = IF isna(call.raw_stage) THEN None ELSE FirstMatch(call.raw_stage)

\* A label that matches both the seed rule and a series rule was classified
\* by the series rule, the earlier of the two.
C12_Witness ==
    /\ call.returned
    /\ ~isna(call.raw_stage)
    /\ {4, 9} \subseteq MatchingRules(call.raw_stage)
    /\ call.ret = s_Series_A

\* C13: a label that maps to a non-Exit stage is emitted as that stage when
\* it is the first deal or its ordinal is not below the previous emitted
\* stage's; a sole deal labeled "Series H" gives [Series E].
C13_MappedLabelEmittedUnchanged ==
    \A c \in CompanyIds :
        locals[c].at # "pending" =>
            LET a == locals[c].st.assigned_stages
                labels == LabelColumn(Input(c))
            IN /\ \A k \in 1..Len(a) :
                     LET m == classify_raw_stage(labels[k])
                     IN ( /\ m # None /\ m # s_Exit
                          /\ \/ k = 1
                             \/ /\ a[k - 1] # s_Exit
                                /\ OrdinalOf(m) >= OrdinalOf(a[k - 1]) )
                        => a[k] = m
               /\ ( /\ Returned(c)
                    /\ labels = <<l_Series_H>> )
                  => Emitted(c) = <<s_Series_E>>

\* "Seed Round", "Series H", "Series H" went in: a jump of five stages, then
\* a repeat.
C13_Witness ==
    /\ Returned(1)
    /\ LabelColumn(Input(1)) = <<l_Seed_Round, l_Series_H, l_Series_H>>
    /\ Emitted(1) = <<s_Seed, s_Series_E, s_Series_E>>

\* Other values for the columns of a group that are not the label: the deal
\* ids all equal with null dates and sizes, or ids and dates reversed with
\* null revenues.
Variants ==
    { [id |-> "same", date |-> "null", size |-> NaNf, revenue |-> 7],
      [id |-> "reversed", date |-> "reversed", size |-> 7, revenue |-> NaNf] }

Vary(group, v) ==
    [k \in 1..Len(group) |->
        Row(IF v.id = "same" THEN 1 ELSE Len(group) + 1 - k,
            IF v.date = "null" THEN NaT ELSE Len(group) + 1 - k,
            group[k]["STAGE"],
            group[k]["PORTFOLIO COMPANY"], group[k]["PORTFOLIO COMPANY ID"],
            v.size, v.revenue)]

\* C14: the emitted stage sequence depends on the labels alone: the same
\* labels in the same order with other deal ids, dates (null or not), sizes
\* and revenues give the same sequence.
C14_StagesDependOnLabelsOnly ==
    \A c \in CompanyIds :
        Returned(c) =>
            \A v \in Variants :
                StageColumn(assign_canonical_stages_and_exit(Vary(Input(c), v)))
                    = Emitted(c)

\* A returned call of three stages ending in Exit whose input, taken with
\* null dates and equal deal ids, differs from it in every row after the first.
C14_Witness ==
    \E c \in CompanyIds :
        /\ Returned(c)
        /\ Len(Emitted(c)) = 3
        /\ Emitted(c)[3] = s_Exit
        /\ Len(Input(c)) > 3
        /\ LET w == Vary(Input(c), [id |-> "same", date |-> "null",
                                    size |-> NaNf, revenue |-> 7])
           IN /\ [id |-> "same", date |-> "null", size |-> NaNf, revenue |-> 7]
                    \in Variants
              /\ \A k \in 2..Len(w) :
                    /\ w[k]["DEAL DATE"] # Input(c)[k]["DEAL DATE"]
                    /\ w[k]["DEAL ID"] # Input(c)[k]["DEAL ID"]
                    /\ w[k]["COMPANY REVENUE (CURR. MN)"]
                         # Input(c)[k]["COMPANY REVENUE (CURR. MN)"]

\* The positions of the records of a group whose label classifies as Exit.
ExitPositions(group) ==
    {k \in 1..Len(group) : classify_raw_stage(group[k]["STAGE"]) = s_Exit}

\* C15: the emitted sequence is as long as the position of the first record
\* that classifies as Exit, or as the input when there is none; the records up
\* to there are the emitted ones, in place; a non-empty input gives a
\* non-empty sequence, with at most one Exit.
C15_TruncationIsTheOnlyLoss ==
    \A c \in CompanyIds :
        Returned(c) =>
            LET group == Input(c)
                emitted == Emitted(c)
                n == Len(group)
                exits == ExitPositions(group)
                p == IF exits = {} THEN n
                     ELSE CHOOSE k \in exits : \A j \in exits : k <= j
            IN /\ Len(emitted) = p
               /\ \A k \in 1..Min(p, Len(locals[c].ret)) :
                     \A col \in DOMAIN group[k] :
                         locals[c].ret[k][col] = group[k][col]
               /\ n >= 1 => Len(emitted) >= 1
               /\ Cardinality({k \in 1..Len(emitted) : emitted[k] = s_Exit}) <= 1

\* An input with two records that classify as Exit, at positions 2 and 3,
\* and more after them: two stages came out, one of them Exit.
C15_Witness ==
    \E c \in CompanyIds :
        /\ Returned(c)
        /\ Len(Input(c)) >= 5
        /\ {2, 3} \subseteq ExitPositions(Input(c))
        /\ 1 \notin ExitPositions(Input(c))
        /\ Len(Emitted(c)) = 2
        /\ Emitted(c)[2] = s_Exit

\* The state of the fold of company c between two iterations.
FoldStateOK(c) ==
    LET st == locals[c].st
        a == st.assigned_stages
        nonExit == SelectSeq(a, LAMBDA s : s # s_Exit)
    IN /\ st.last_idx \in {NoIdx} \cup 0..5
       /\ st.last_idx = IF nonExit = << >> THEN NoIdx
                        ELSE OrdinalOf(nonExit[Len(nonExit)])
       /\ st.exited <=> (a # << >> /\ a[Len(a)] = s_Exit)

\* One step of the fold of company c.
FoldStepOK(c) ==
    LET st == locals[c].st
        st2 == locals'[c].st
        a == st.assigned_stages
        a2 == st2.assigned_stages
    IN /\ st.exited => st2.exited
       /\ (Len(a2) = Len(a) + 1 /\ a2[Len(a2)] = s_Exit)
             => st2.last_idx = st.last_idx
       /\ (st.exited /\ locals'[c].i # locals[c].i)
             => (st2.last_idx = st.last_idx /\ a2 = a)

\* C16: at every step of the fold last_idx is None or the ordinal, in 0..5, of
\* the most recent non-Exit stage emitted (None exactly when there is none),
\* exited holds exactly when the last emitted stage is Exit and never turns
\* false again, and last_idx is left alone by the step that emits Exit and by
\* the steps that skip the records after it.
C16_FoldState ==
    /\ [](\A c \in CompanyIds : FoldStateOK(c))
    /\ [][\A c \in CompanyIds : FoldStepOK(c)]_vars

\* A call still in its loop that emitted Series B and then Exit and has since
\* skipped at least two records.
C16_Witness ==
    \E c \in CompanyIds :
        /\ locals[c].at = "loop"
        /\ locals[c].st.exited
        /\ locals[c].st.last_idx = 2
        /\ locals[c].st.assigned_stages[Len(locals[c].st.assigned_stages)] = s_Exit
        /\ locals[c].i - 1 >= Len(locals[c].st.assigned_stages) + 2

\* The rows of a result with the canonical stage put in place of the raw
\* label.
Relabelled(result) ==
    [k \in 1..Len(result) |->
        ("STAGE" :> result[k]["CANONICAL_STAGE"]) @@ result[k]]

\* Each name of stages_order, given as a raw label, classifies to itself.
NamesClassifyToThemselves ==
    \A k \in 1..Len(stages_order) :
        classify_raw_stage(stages_order[k]) = stages_order[k]

\* C17: each of the six names of stages_order classifies to itself, and an
\* emitted sequence without Exit, fed back as raw labels, comes out unchanged.
C17_CanonicalNamesAreFixed ==
    /\ NamesClassifyToThemselves
    /\ \A c \in CompanyIds :
          (Returned(c) /\ \A k \in 1..Len(Emitted(c)) : Emitted(c)[k] # s_Exit)
             => StageColumn(assign_canonical_stages_and_exit(Relabelled(locals[c].ret)))
                   = Emitted(c)

\* A returned sequence of at least four stages without Exit that repeats a
\* stage and holds one that came from a label without a mapping.
C17_Witness ==
    \E c \in CompanyIds :
        /\ Returned(c)
        /\ Len(Emitted(c)) >= 4
        /\ \A k \in 1..Len(Emitted(c)) : Emitted(c)[k] # s_Exit
        /\ Emitted(c)[1] = Emitted(c)[2]
        /\ classify_raw_stage(Input(c)[3]["STAGE"]) = None
        /\ LabelColumn(Relabelled(locals[c].ret)) # LabelColumn(Input(c))

=============================================================================
